---------------------------- MODULE Spec2Model ----------------------------
(***************************************************************************)
(* Model of sketch.js, a 3D crossword: the grid (world), the generator of  *)
(* connected block layouts, the loader of puzzle records (Format A: word   *)
(* list, Format B: solution list with optional clue lists), the derivation *)
(* of clues and the keyboard handler that types into the grid.             *)
(*                                                                         *)
(* A cell coordinate is a tuple <<x, y, z>>.  A grid g is a record         *)
(* [NX, NY, NZ, world]: the globals NX, NY, NZ and world of the program,   *)
(* passed explicitly because the helpers are evaluated on grids under      *)
(* construction.  A string of the program is a sequence of one-character   *)
(* strings; the empty string "" is the empty letter of a cell.             *)
(***************************************************************************)
EXTENDS Integers, Sequences, FiniteSets, TLC

VARIABLES
  CFG,        \* the generation configuration (GEN_NX .. maxTries)
  puzzleJSON, \* the record preload() obtained, or Null
  puzzle,     \* the active puzzle object (the one downloadPuzzleJSON saves)
  NX, NY, NZ, \* dimensions of the world
  world,      \* world[<<x,y,z>>] = [block, ch, sol, numR, numD, numI]
  clues,      \* [R, D, I]: sequences of clue objects
  cur,        \* the cursor <<x, y, z>>
  view,       \* "XY" | "XZ" | "YZ"
  depthX,     \* the x fixed in view YZ
  depthY,     \* the y fixed in view XZ
  lastAxis,   \* "x" | "y": the axis of the last move in view XY
  blocks,     \* generateConnectedBlocks: accepted placements
  tries,      \* generateConnectedBlocks: attempts made
  errors,     \* the console.error lines of the latest loadPuzzleFromJSON call
  made,       \* observation: the grid as generatePuzzleJSON left it
  first,      \* observation: the grid as the first loadPuzzleFromJSON left it
  last,       \* observation: what the latest step did
  pc          \* position of the program

vars == <<CFG, puzzleJSON, puzzle, NX, NY, NZ, world, clues, cur, view, depthX,
          depthY, lastAxis, blocks, tries, errors, made, first, last, pc>>

\* the view controls
nav == <<view, depthX, depthY, lastAxis>>

\* undefined / null of the program, where a string is expected
Null == "null"

\* the answer field of a clue object that has none yet
NoAnswer == << Null >>

\* puzzleJSON when loadJSON failed: no record
NoRecord == [present |-> FALSE]

----------------------------------------------------------------------------
(* Bounds of the model *)

\* largest attempt cap (CFG.maxTries) a configuration may carry
MaxTries == 3
\* largest CFG.minOpenPerSlice a configuration may carry
MaxMinOpen == 3

\* most words of a Format A record
MaxWords == 2

\* the volumes generation is run on
GenDims == { <<2, 2, 1>>, <<3, 2, 1>>, <<2, 1, 2>>, <<2, 2, 2>> }
\* CFG.targetBlockFrac as a fraction <<numerator, denominator>>
TargetFracs == { <<0, 1>>, <<1, 4>>, <<1, 3>>, <<1, 2>> }

----------------------------------------------------------------------------
(* World helpers *)

EmptyCell == [block |-> FALSE, ch |-> "", sol |-> "", numR |-> 0, numD |-> 0, numI |-> 0]

CellsOf(nx, ny, nz) == (0 .. nx - 1) \X (0 .. ny - 1) \X (0 .. nz - 1)

Cells(g) == CellsOf(g.NX, g.NY, g.NZ)

\* the nested loops that fill world with fresh cells
EmptyWorld(nx, ny, nz) == [c \in CellsOf(nx, ny, nz) |-> EmptyCell]

Grid == [NX |-> NX, NY |-> NY, NZ |-> NZ, world |-> world]

cell(g, x, y, z) == g.world[<<x, y, z>>]

inBounds(g, x, y, z) == x >= 0 /\ x < g.NX /\ y >= 0 /\ y < g.NY /\ z >= 0 /\ z < g.NZ

\* String.fromCharCode(65 + v) for v in 0 .. 25
Alphabet == << "A", "B", "C", "D", "E", "F", "G", "H", "I", "J", "K", "L", "M",
               "N", "O", "P", "Q", "R", "S", "T", "U", "V", "W", "X", "Y", "Z" >>

pseudoLetter(x, y, z) == Alphabet[((x * 73 + y * 151 + z * 199 + 17) % 26) + 1]

\* the cells in the order of the loops `for z, for y, for x`
ScanCell(g, i) == << i % g.NX, (i \div g.NX) % g.NY, i \div (g.NX * g.NY) >>

ScanOrder(g) == [i \in 1 .. g.NX * g.NY * g.NZ |-> ScanCell(g, i - 1)]

\* keep the elements of sequence s that satisfy Test, in order
SelectCells(g, Test(_)) == SelectSeq(ScanOrder(g), Test)

----------------------------------------------------------------------------
(* Clues *)

\* unit step of a direction
Step(dir) == IF dir = "R" THEN <<1, 0, 0>> ELSE IF dir = "D" THEN <<0, 1, 0>> ELSE <<0, 0, 1>>

\* the default hint of a direction
DefaultHint(dir) == IF dir = "R" THEN "paremale" ELSE IF dir = "D" THEN "alla" ELSE "sisse"

\* wordLen that does not count the start cell
RECURSIVE wordLen_FromNext(_, _, _, _, _, _, _)
wordLen_FromNext(g, x, y, z, dx, dy, dz) ==
  IF inBounds(g, x + dx, y + dy, z + dz) /\ ~cell(g, x + dx, y + dy, z + dz).block
  THEN 1 + wordLen_FromNext(g, x + dx, y + dy, z + dz, dx, dy, dz)
  ELSE 0

RECURSIVE wordLen(_, _, _, _, _, _, _)
wordLen(g, x, y, z, dx, dy, dz) ==
  IF inBounds(g, x, y, z) /\ ~cell(g, x, y, z).block
  THEN 1 + wordLen(g, x + dx, y + dy, z + dz, dx, dy, dz)
  ELSE 0

\* startsR without the test of the following cell
startsR_NoLookahead(g, x, y, z) == (x = 0 \/ cell(g, x - 1, y, z).block)

\* startsR / startsD / startsI of the scan, for the open cell <<x, y, z>>
startsR(g, x, y, z) ==
  (x = 0 \/ cell(g, x - 1, y, z).block) /\ (x + 1 < g.NX /\ ~cell(g, x + 1, y, z).block)

startsD(g, x, y, z) ==
  (y = 0 \/ cell(g, x, y - 1, z).block) /\ (y + 1 < g.NY /\ ~cell(g, x, y + 1, z).block)

startsI(g, x, y, z) ==
  (z = 0 \/ cell(g, x, y, z - 1).block) /\ (z + 1 < g.NZ /\ ~cell(g, x, y, z + 1).block)

\* The scan shared by computeDirectionalCluesJSON and computeCluesFromWorld,
\* from the i-th cell of the scan order on; n is the running number, acc the
\* lists R, D, I built so far.
RECURSIVE ScanClues(_, _, _, _)
ScanClues(g, i, n, acc) ==
  IF i > g.NX * g.NY * g.NZ THEN acc
  ELSE LET c == ScanCell(g, i - 1)
           x == c[1]
           y == c[2]
           z == c[3]
       IN IF cell(g, x, y, z).block THEN ScanClues(g, i + 1, n, acc)
          ELSE LET sR == startsR(g, x, y, z)
                   sD == startsD(g, x, y, z)
                   sI == startsI(g, x, y, z)
                   n1 == IF sR \/ sD \/ sI THEN n + 1 ELSE n
                   mk(dir) == [n |-> n1,
                               len |-> wordLen(g, x, y, z, Step(dir)[1], Step(dir)[2], Step(dir)[3]),
                               start |-> c, hint |-> DefaultHint(dir), answer |-> NoAnswer]
               IN ScanClues(g, i + 1, n1,
                    [R |-> IF sR THEN Append(acc.R, mk("R")) ELSE acc.R,
                     D |-> IF sD THEN Append(acc.D, mk("D")) ELSE acc.D,
                     I |-> IF sI THEN Append(acc.I, mk("I")) ELSE acc.I])

NoClues == [R |-> <<>>, D |-> <<>>, I |-> <<>>]

computeDirectionalCluesJSON(g) == ScanClues(g, 1, 0, NoClues)

computeCluesFromWorld(g) == ScanClues(g, 1, 0, NoClues)

RECURSIVE readWordFromSolution(_, _, _, _, _)
readWordFromSolution(g, start, dx, dy, dz) ==
  IF inBounds(g, start[1], start[2], start[3]) /\ ~cell(g, start[1], start[2], start[3]).block
  THEN LET s == cell(g, start[1], start[2], start[3]).sol
       IN << IF s # "" THEN s ELSE "?" >>
            \o readWordFromSolution(g, <<start[1] + dx, start[2] + dy, start[3] + dz>>, dx, dy, dz)
  ELSE << >>

\* attachAnswersToClues: every clue object gets its answer read from the grid
attachAnswersToClues(g, cl) ==
  [R |-> [i \in DOMAIN cl.R |-> [cl.R[i] EXCEPT !.answer = readWordFromSolution(g, cl.R[i].start, 1, 0, 0)]],
   D |-> [i \in DOMAIN cl.D |-> [cl.D[i] EXCEPT !.answer = readWordFromSolution(g, cl.D[i].start, 0, 1, 0)]],
   I |-> [i \in DOMAIN cl.I |-> [cl.I[i] EXCEPT !.answer = readWordFromSolution(g, cl.I[i].start, 0, 0, 1)]]]

\* ensureHintFields: the R loop only logs; D and I get their default hint
ensureHintFields(cl) ==
  [R |-> cl.R,
   D |-> [i \in DOMAIN cl.D |->
            IF cl.D[i].hint = Null \/ cl.D[i].hint = "" THEN [cl.D[i] EXCEPT !.hint = "alla"] ELSE cl.D[i]],
   I |-> [i \in DOMAIN cl.I |->
            IF cl.I[i].hint = Null \/ cl.I[i].hint = "" THEN [cl.I[i] EXCEPT !.hint = "sisse"] ELSE cl.I[i]]]

clearNumbers(w) == [c \in DOMAIN w |-> [w[c] EXCEPT !.numR = 0, !.numD = 0, !.numI = 0]]

\* setNum(kind, c) on world w of grid g
setNum(g, kind, c) ==
  IF ~inBounds(g, c.start[1], c.start[2], c.start[3]) THEN g
  ELSE IF kind = "R" THEN [g EXCEPT !.world[c.start].numR = c.n]
  ELSE IF kind = "D" THEN [g EXCEPT !.world[c.start].numD = c.n]
  ELSE [g EXCEPT !.world[c.start].numI = c.n]

\* `for (const c of list) setNum(kind, c)`, from the i-th clue on
RECURSIVE setNums(_, _, _, _)
setNums(g, kind, list, i) ==
  IF i > Len(list) THEN g ELSE setNums(setNum(g, kind, list[i]), kind, list, i + 1)

\* the three setNum loops of loadPuzzleFromJSON
applyNumbering(g, cl) ==
  setNums(setNums(setNums(g, "R", cl.R, 1), "D", cl.D, 1), "I", cl.I, 1)

----------------------------------------------------------------------------
(* Loading a record                                                        *)
(* A record js is [present, dims, blocks, words, solution, clues]: dims is *)
(* <<nx, ny, nz>>, blocks a sequence of coordinates, words a sequence of   *)
(* [dir, start, answer, clue], solution a sequence of [at, ch], clues the  *)
(* three lists [R, D, I].  An absent list is the empty sequence, which the *)
(* loader treats alike (`?? []`, `.length > 0`).                           *)

LowerCase == << "a", "b", "c", "d", "e", "f", "g", "h", "i", "j", "k", "l", "m",
                "n", "o", "p", "q", "r", "s", "t", "u", "v", "w", "x", "y", "z" >>

\* String.prototype.toUpperCase on the letters a-z, A-Z
UpperChar(ch) ==
  IF \E i \in 1 .. 26 : LowerCase[i] = ch
  THEN Alphabet[CHOOSE i \in 1 .. 26 : LowerCase[i] = ch]
  ELSE ch

toUpperCase(str) == [i \in DOMAIN str |-> UpperChar(str[i])]

\* the block loop indexing the world with x and z exchanged
RECURSIVE markBlocks_Transposed(_, _, _)
markBlocks_Transposed(g, bl, i) ==
  IF i > Len(bl) THEN g
  ELSE markBlocks_Transposed(
         IF inBounds(g, bl[i][3], bl[i][2], bl[i][1])
         THEN [g EXCEPT !.world[<<bl[i][3], bl[i][2], bl[i][1]>>].block = TRUE] ELSE g,
         bl, i + 1)

\* `for (const b of js.blocks) if (inBounds(b)) world[b].block = true`
RECURSIVE markBlocks(_, _, _)
markBlocks(g, bl, i) ==
  IF i > Len(bl) THEN g
  ELSE markBlocks(IF inBounds(g, bl[i][1], bl[i][2], bl[i][3])
                  THEN [g EXCEPT !.world[bl[i]].block = TRUE] ELSE g,
                  bl, i + 1)

Diagnostic(kind, k, at, had, wants) ==
  [kind |-> kind, word |-> k, at |-> at, had |-> had, wants |-> wants]

\* the inner loop keeping the letter a cell already holds
RECURSIVE writeWord_KeepFirst(_, _, _, _, _, _)
writeWord_KeepFirst(st, k, dir, ans, i, pos) ==
  IF i > Len(ans) THEN st
  ELSE IF ~inBounds(st.g, pos[1], pos[2], pos[3])
  THEN [st EXCEPT !.errors = Append(@, Diagnostic("WORD OUT OF BOUNDS", k, pos, "", ""))]
  ELSE IF st.g.world[pos].block
  THEN [st EXCEPT !.errors = Append(@, Diagnostic("WORD HITS BLOCK", k, pos, "", ""))]
  ELSE LET had == st.g.world[pos].sol
           clash == had # "" /\ had # ans[i]
           e2 == IF clash
                 THEN Append(st.errors, Diagnostic("CROSSING CONFLICT", k, pos, had, ans[i]))
                 ELSE st.errors
           g2 == IF clash THEN st.g ELSE [st.g EXCEPT !.world[pos].sol = ans[i]]
       IN writeWord_KeepFirst([g |-> g2, errors |-> e2], k, dir, ans, i + 1,
                    <<pos[1] + Step(dir)[1], pos[2] + Step(dir)[2], pos[3] + Step(dir)[3]>>)

\* The inner loop of step 1 for word number k: letter i of ans goes to pos.
\* st is [g, errors].
RECURSIVE writeWord(_, _, _, _, _, _)
writeWord(st, k, dir, ans, i, pos) ==
  IF i > Len(ans) THEN st
  ELSE IF ~inBounds(st.g, pos[1], pos[2], pos[3])
  THEN [st EXCEPT !.errors = Append(@, Diagnostic("WORD OUT OF BOUNDS", k, pos, "", ""))]
  ELSE IF st.g.world[pos].block
  THEN [st EXCEPT !.errors = Append(@, Diagnostic("WORD HITS BLOCK", k, pos, "", ""))]
  ELSE LET had == st.g.world[pos].sol
           e2 == IF had # "" /\ had # ans[i]
                 THEN Append(st.errors, Diagnostic("CROSSING CONFLICT", k, pos, had, ans[i]))
                 ELSE st.errors
           g2 == [st.g EXCEPT !.world[pos].sol = ans[i]]
       IN writeWord([g |-> g2, errors |-> e2], k, dir, ans, i + 1,
                    <<pos[1] + Step(dir)[1], pos[2] + Step(dir)[2], pos[3] + Step(dir)[3]>>)

\* step 1 of Format A: every word of the list, from word k on
RECURSIVE writeWords(_, _, _)
writeWords(st, words, k) ==
  IF k > Len(words) THEN st
  ELSE writeWords(writeWord(st, k, words[k].dir, toUpperCase(words[k].answer), 1, words[k].start),
                  words, k + 1)

\* step 2 giving every word a fresh number
RECURSIVE cluesFromWords_FreshNumber(_, _, _, _, _)
cluesFromWords_FreshNumber(words, k, startToNumber, nextN, acc) ==
  IF k > Len(words) THEN acc
  ELSE LET w == words[k]
           c == [n |-> nextN, start |-> w.start, len |-> Len(w.answer),
                 hint |-> IF w.clue # Null THEN w.clue ELSE DefaultHint(w.dir),
                 answer |-> toUpperCase(w.answer)]
       IN cluesFromWords_FreshNumber(words, k + 1, startToNumber, nextN + 1,
                                     [acc EXCEPT ![w.dir] = Append(@, c)])

\* step 2 of Format A, from word k on: startToNumber is the map from start
\* cell to number (its key `x,y,z` is the coordinate), nextN the next number
RECURSIVE cluesFromWords(_, _, _, _, _)
cluesFromWords(words, k, startToNumber, nextN, acc) ==
  IF k > Len(words) THEN acc
  ELSE LET w == words[k]
           known == w.start \in DOMAIN startToNumber
           n == IF known THEN startToNumber[w.start] ELSE nextN
           map2 == IF known THEN startToNumber
                   ELSE [s \in DOMAIN startToNumber \cup {w.start} |->
                           IF s = w.start THEN nextN ELSE startToNumber[s]]
           c == [n |-> n, start |-> w.start, len |-> Len(w.answer),
                 hint |-> IF w.clue # Null THEN w.clue ELSE DefaultHint(w.dir),
                 answer |-> toUpperCase(w.answer)]
       IN cluesFromWords(words, k + 1, map2, IF known THEN nextN ELSE nextN + 1,
                         [acc EXCEPT ![w.dir] = Append(@, c)])

\* the Format B loop over js.solution, from entry i on
RECURSIVE writeSolution(_, _, _)
writeSolution(g, sol, i) ==
  IF i > Len(sol) THEN g
  ELSE LET s == sol[i]
       IN writeSolution(
            IF inBounds(g, s.at[1], s.at[2], s.at[3]) /\ ~g.world[s.at].block
            THEN [g EXCEPT !.world[s.at].sol = IF s.ch = Null THEN "" ELSE s.ch]
            ELSE g,
            sol, i + 1)

\* the test of js.clues alone, without the lengths of its lists
hasClues_Truthy(js) == TRUE

\* `js.clues && (js.clues.R?.length || js.clues.D?.length || js.clues.I?.length)`
hasClues(js) == Len(js.clues.R) > 0 \/ Len(js.clues.D) > 0 \/ Len(js.clues.I) > 0

\* The Format A branch of loadPuzzleFromJSON on the grid g2 that holds the
\* blocks: steps 1 to 4 for the word list `words`.
loadWords(g2, words) ==
  LET st == writeWords([g |-> g2, errors |-> << >>], words, 1)
      cl == cluesFromWords(words, 1, << >>, 1, NoClues)
      g3 == applyNumbering(st.g, cl)
  IN [g |-> g3, clues |-> attachAnswersToClues(g3, cl), errors |-> st.errors,
      puzzle |-> NoRecord]

\* the grid of a record before its words or solution are read: fresh cells,
\* the blocks marked, the numbers cleared
blockedGrid(js) ==
  LET g0 == [NX |-> js.dims[1], NY |-> js.dims[2], NZ |-> js.dims[3],
             world |-> EmptyWorld(js.dims[1], js.dims[2], js.dims[3])]
      g1 == markBlocks(g0, js.blocks, 1)
  IN [g1 EXCEPT !.world = clearNumbers(@)]

\* loadPuzzleFromJSON(js): the grid, the clues, the diagnostics it logs and the
\* object it leaves in `puzzle`.  With a supplied clue list the clue objects
\* of js are the ones the loader completes, so the record in `puzzle` carries
\* the completed clues.
loadPuzzleFromJSON(js) ==
  LET g2 == blockedGrid(js)
  IN IF Len(js.words) > 0
     THEN [loadWords(g2, js.words) EXCEPT !.puzzle = js]
     ELSE LET g3 == writeSolution(g2, js.solution, 1)
              cl == IF hasClues(js) THEN ensureHintFields(js.clues)
                    ELSE ensureHintFields(computeCluesFromWorld(g3))
              g4 == applyNumbering(g3, cl)
              cl2 == attachAnswersToClues(g4, cl)
          IN [g |-> g4, clues |-> cl2, errors |-> << >>,
              puzzle |-> IF hasClues(js) THEN [js EXCEPT !.clues = cl2] ELSE js]

\* setup(): the first open cell in scan order, or the cursor as it was
FirstOpenCell(g, old) ==
  LET isOpen(c) == ~cell(g, c[1], c[2], c[3]).block
      open == SelectCells(g, isOpen)
  IN IF Len(open) > 0 THEN open[1] ELSE old

----------------------------------------------------------------------------
(* Connectivity helpers *)

sliceOpenCountXY(g, z) ==
  Cardinality({ c \in Cells(g) : c[3] = z /\ ~cell(g, c[1], c[2], c[3]).block })

sliceOpenCountXZ(g, y) ==
  Cardinality({ c \in Cells(g) : c[2] = y /\ ~cell(g, c[1], c[2], c[3]).block })

sliceOpenCountYZ(g, x) ==
  Cardinality({ c \in Cells(g) : c[1] = x /\ ~cell(g, c[1], c[2], c[3]).block })

\* the neighbour offsets with the diagonal steps added
neigh_WithDiagonals == { <<1, 0>>, <<-1, 0>>, <<0, 1>>, <<0, -1>>,
                         <<1, 1>>, <<-1, -1>>, <<1, -1>>, <<-1, 1>> }

\* the four neighbour offsets of the flood fill
neigh == { <<1, 0>>, <<-1, 0>>, <<0, 1>>, <<0, -1>> }

\* The flood fill shared by the three isConnected functions: `open` is the set
\* of open <<u, v>> of the slice, `vis` the cells marked so far; every marked
\* cell is popped once and marks its open unmarked in-bounds neighbours.
RECURSIVE Flood(_, _)
Flood(open, vis) ==
  LET more == { p \in open \ vis :
                  \E q \in vis, d \in neigh : p = <<q[1] + d[1], q[2] + d[2]>> }
  IN IF more = {} THEN vis ELSE Flood(open, vis \cup more)

\* the first open cell of the slice in the scan order (v outer, u inner)
FirstOpen(open) ==
  CHOOSE p \in open : \A q \in open : p[2] < q[2] \/ (p[2] = q[2] /\ p[1] <= q[1])

SliceConnected(open) ==
  IF Cardinality(open) = 0 THEN FALSE
  ELSE Cardinality(Flood(open, {FirstOpen(open)})) = Cardinality(open)

isConnectedXY(g, zFix) ==
  SliceConnected({ <<x, y>> \in (0 .. g.NX - 1) \X (0 .. g.NY - 1) :
                     ~cell(g, x, y, zFix).block })

isConnectedXZ(g, yFix) ==
  SliceConnected({ <<x, z>> \in (0 .. g.NX - 1) \X (0 .. g.NZ - 1) :
                     ~cell(g, x, yFix, z).block })

isConnectedYZ(g, xFix) ==
  SliceConnected({ <<y, z>> \in (0 .. g.NY - 1) \X (0 .. g.NZ - 1) :
                     ~cell(g, xFix, y, z).block })

allSlicesConnected(g) ==
  /\ \A z \in 0 .. g.NZ - 1 : isConnectedXY(g, z)
  /\ \A y \in 0 .. g.NY - 1 : isConnectedXZ(g, y)
  /\ \A x \in 0 .. g.NX - 1 : isConnectedYZ(g, x)

----------------------------------------------------------------------------
(* Generation *)

\* Math.floor(total * CFG.targetBlockFrac), the fraction taken exactly
targetBlocks == (NX * NY * NZ * CFG.targetBlockFrac[1]) \div CFG.targetBlockFrac[2]

\* the loop condition with the target test off by one
LoopRuns_OffByOne == blocks <= targetBlocks /\ tries < CFG.maxTries

\* the loop condition without the cap on the attempts
LoopRuns_NoCap == blocks < targetBlocks

\* the condition of the while loop of generateConnectedBlocks
LoopRuns == blocks < targetBlocks /\ tries < CFG.maxTries

\* the test without its connectivity part
PlacementOk_CountsOnly(g, x, y, z) ==
  /\ sliceOpenCountXY(g, z) >= CFG.minOpenPerSlice
  /\ sliceOpenCountXZ(g, y) >= CFG.minOpenPerSlice
  /\ sliceOpenCountYZ(g, x) >= CFG.minOpenPerSlice

\* the test made after the tentative block at <<x, y, z>>
PlacementOk(g, x, y, z) ==
  /\ sliceOpenCountXY(g, z) >= CFG.minOpenPerSlice
  /\ sliceOpenCountXZ(g, y) >= CFG.minOpenPerSlice
  /\ sliceOpenCountYZ(g, x) >= CFG.minOpenPerSlice
  /\ allSlicesConnected(g)

\* setup() with no usable record: generatePuzzleJSON builds the open world in
\* the generator's dimensions and enters generateConnectedBlocks
GenerateStart ==
  /\ pc = "setup"
  /\ ~puzzleJSON.present
  /\ NX' = CFG.GEN_NX /\ NY' = CFG.GEN_NY /\ NZ' = CFG.GEN_NZ
  /\ world' = EmptyWorld(CFG.GEN_NX, CFG.GEN_NY, CFG.GEN_NZ)
  /\ blocks' = 0 /\ tries' = 0
  /\ last' = [op |-> "start"]
  /\ pc' = "gen"
  /\ UNCHANGED <<CFG, puzzleJSON, puzzle, clues, cur, nav, errors, made, first>>

\* an iteration that leaves the tentative block in place when the test fails
Trial_NoRevert(x, y, z) ==
  /\ pc = "gen"
  /\ LoopRuns
  /\ tries' = tries + 1
  /\ LET ce == cell(Grid, x, y, z)
         tent == [Grid EXCEPT !.world[<<x, y, z>>].block = TRUE]
     IN IF ce.block
        THEN /\ UNCHANGED <<world, blocks>>
             /\ last' = [op |-> "skip", at |-> <<x, y, z>>, world |-> world, blocks |-> blocks]
        ELSE IF PlacementOk(tent, x, y, z)
        THEN /\ world' = tent.world
             /\ blocks' = blocks + 1
             /\ last' = [op |-> "accept", at |-> <<x, y, z>>, world |-> world, blocks |-> blocks]
        ELSE /\ world' = tent.world
             /\ UNCHANGED blocks
             /\ last' = [op |-> "revert", at |-> <<x, y, z>>, world |-> world, blocks |-> blocks]
  /\ UNCHANGED <<CFG, puzzleJSON, puzzle, NX, NY, NZ, clues, cur, nav, errors, made, first, pc>>

\* one iteration of the while loop, the random pick being <<x, y, z>>
Trial(x, y, z) ==
  /\ pc = "gen"
  /\ LoopRuns
  /\ tries' = tries + 1
  /\ LET ce == cell(Grid, x, y, z)
         tent == [Grid EXCEPT !.world[<<x, y, z>>].block = TRUE]
     IN IF ce.block
        THEN /\ UNCHANGED <<world, blocks>>
             /\ last' = [op |-> "skip", at |-> <<x, y, z>>, world |-> world, blocks |-> blocks]
        ELSE IF PlacementOk(tent, x, y, z)
        THEN /\ world' = tent.world
             /\ blocks' = blocks + 1
             /\ last' = [op |-> "accept", at |-> <<x, y, z>>, world |-> world, blocks |-> blocks]
        ELSE /\ world' = [tent.world EXCEPT ![<<x, y, z>>].block = FALSE]
             /\ UNCHANGED blocks
             /\ last' = [op |-> "revert", at |-> <<x, y, z>>, world |-> world, blocks |-> blocks]
  /\ UNCHANGED <<CFG, puzzleJSON, puzzle, NX, NY, NZ, clues, cur, nav, errors, made, first, pc>>

\* the observation of a grid: dimensions and cells
Snapshot(g) == [set |-> TRUE, NX |-> g.NX, NY |-> g.NY, NZ |-> g.NZ, world |-> g.world]

\* the rest of generatePuzzleJSON once generateConnectedBlocks has returned:
\* the blocks list, the dummy solution written into the grid, the clues
GenerateFinish ==
  /\ pc = "gen"
  /\ ~LoopRuns
  /\ LET g == Grid
         isBlock(c) == cell(g, c[1], c[2], c[3]).block
         isOpen(c) == ~cell(g, c[1], c[2], c[3]).block
         blist == SelectCells(g, isBlock)
         olist == SelectCells(g, isOpen)
         w2 == [c \in Cells(g) |->
                  IF g.world[c].block THEN g.world[c]
                  ELSE [g.world[c] EXCEPT !.sol = pseudoLetter(c[1], c[2], c[3])]]
         g2 == [g EXCEPT !.world = w2]
     IN /\ world' = w2
        /\ puzzle' = [present |-> TRUE,
                      dims |-> <<NX, NY, NZ>>,
                      blocks |-> blist,
                      words |-> << >>,
                      solution |-> [i \in DOMAIN olist |->
                                      [at |-> olist[i],
                                       ch |-> pseudoLetter(olist[i][1], olist[i][2], olist[i][3])]],
                      clues |-> computeDirectionalCluesJSON(g2)]
        /\ made' = Snapshot(g2)
  /\ last' = [op |-> "generated"]
  /\ pc' = "generated"
  /\ UNCHANGED <<CFG, puzzleJSON, NX, NY, NZ, clues, cur, nav, blocks, tries, errors, first>>

\* the state change of a call of loadPuzzleFromJSON whose outcome is r
DoLoad(r) ==
  /\ NX' = r.g.NX /\ NY' = r.g.NY /\ NZ' = r.g.NZ
  /\ world' = r.g.world
  /\ clues' = r.clues
  /\ errors' = r.errors
  /\ puzzle' = r.puzzle

\* setup() after generatePuzzleJSON(): loadPuzzleFromJSON(puzzle), then the cursor
SetupGenerated ==
  /\ pc = "generated"
  /\ \E r \in { loadPuzzleFromJSON(puzzle) } :
       /\ DoLoad(r)
       /\ cur' = FirstOpenCell(r.g, cur)
       /\ depthX' = FirstOpenCell(r.g, cur)[1]
       /\ depthY' = FirstOpenCell(r.g, cur)[2]
       /\ first' = Snapshot(r.g)
  /\ last' = [op |-> "load", js |-> puzzle]
  /\ pc' = "run"
  /\ UNCHANGED <<CFG, puzzleJSON, view, lastAxis, blocks, tries, made>>

\* the generation path of setup(): no record was loaded, the configuration is any
GenInit ==
  /\ CFG \in [GEN_NX : {d[1] : d \in GenDims}, GEN_NY : {d[2] : d \in GenDims},
              GEN_NZ : {d[3] : d \in GenDims}, targetBlockFrac : TargetFracs,
              minOpenPerSlice : 0 .. MaxMinOpen, maxTries : 0 .. MaxTries]
  /\ <<CFG.GEN_NX, CFG.GEN_NY, CFG.GEN_NZ>> \in GenDims
  /\ puzzleJSON = NoRecord
  /\ puzzle = NoRecord
  /\ NX = 0 /\ NY = 0 /\ NZ = 0
  /\ world = << >>
  /\ clues = NoClues
  /\ cur = <<0, 0, 0>>
  /\ view = "XY" /\ depthX = 0 /\ depthY = 0 /\ lastAxis = "x"
  /\ blocks = 0 /\ tries = 0
  /\ errors = << >>
  /\ made = [set |-> FALSE]
  /\ first = [set |-> FALSE]
  /\ last = [op |-> "init"]
  /\ pc = "setup"

GenNext ==
  \/ GenerateStart
  \/ \E x \in 0 .. NX - 1, y \in 0 .. NY - 1, z \in 0 .. NZ - 1 : Trial(x, y, z)
  \/ GenerateFinish
  \/ SetupGenerated

SpecGen == GenInit /\ [][GenNext]_vars

\* the same with the while loop running on: the loop is straight-line code,
\* its next iteration is taken as long as its condition holds
SpecGenFair ==
  GenInit /\ [][GenNext]_vars
  /\ WF_vars(\E x \in 0 .. NX - 1, y \in 0 .. NY - 1, z \in 0 .. NZ - 1 : Trial(x, y, z))

----------------------------------------------------------------------------
(* The records loaded                                                      *)

\* the sequences over S of length lo .. hi
SeqsOf(S, lo, hi) == UNION { [1 .. n -> S] : n \in lo .. hi }

\* the elements of a set of cells as a list in scan order
RECURSIVE ListOf(_)
ListOf(S) ==
  IF S = {} THEN << >>
  ELSE LET m == CHOOSE c \in S : \A d \in S :
                  \/ c[3] < d[3]
                  \/ (c[3] = d[3] /\ c[2] < d[2])
                  \/ (c[3] = d[3] /\ c[2] = d[2] /\ c[1] <= d[1])
       IN << m >> \o ListOf(S \ {m})

\* dimensions of the records with a word list or with supplied clues
LoadDims == { <<2, 2, 2>> }
\* dimensions of the records whose clues are derived
DerivedDims == { <<2, 2, 1>>, <<3, 1, 1>>, <<1, 3, 1>>, <<2, 1, 2>> }

\* block lists of at most one entry: none, a cell, or a coordinate off the grid
FewBlocks(d) ==
  { << >> } \cup { << c >> : c \in { <<0, 0, 0>>, <<1, 0, 0>>, <<1, 1, 0>>, <<d[1], 0, 0>> } }

\* block lists naming any set of cells
AnyBlocks(d) == { ListOf(S) : S \in SUBSET CellsOf(d[1], d[2], d[3]) }

Dirs == { "R", "D", "I" }
\* start coordinates of words and supplied clues (<<0, 2, 0>> is off a 2x2x2 grid)
Starts == { <<0, 0, 0>>, <<1, 0, 0>>, <<0, 2, 0>> }
Answers == { << "B" >>, << "a", "B" >> }

WordPool == [dir : Dirs, start : Starts, answer : Answers, clue : {Null}]

CluePool == [n : 1 .. 2, start : Starts, len : {2}, hint : {Null, "vihje"}, answer : {NoAnswer}]

\* the solution list a generator would write: a letter for every cell
FullSolution(d) ==
  LET g == [NX |-> d[1], NY |-> d[2], NZ |-> d[3]]
  IN [i \in 1 .. d[1] * d[2] * d[3] |->
        [at |-> ScanCell(g, i - 1),
         ch |-> pseudoLetter(ScanCell(g, i - 1)[1], ScanCell(g, i - 1)[2], ScanCell(g, i - 1)[3])]]

\* solution lists: none, the full one, or one entry (its letter possibly missing)
SolutionLists(d) ==
  { << >>, FullSolution(d) }
  \cup { << [at |-> c, ch |-> l] >> : c \in {<<0, 0, 0>>, <<1, 0, 0>>}, l \in {"b", Null} }

\* supplied clue lists holding lo .. hi clues in all (the records carry one or two)
ClueLists(lo, hi) ==
  UNION { [R : [1 .. a -> CluePool], D : [1 .. b -> CluePool], I : [1 .. c -> CluePool]] :
            <<a, b, c>> \in { t \in (0 .. hi) \X (0 .. hi) \X (0 .. hi) :
                                t[1] + t[2] + t[3] >= lo /\ t[1] + t[2] + t[3] <= hi } }

\* Format A: a non-empty word list
RecordsA(dims, maxWords) ==
  UNION { [present : {TRUE}, dims : {d}, blocks : FewBlocks(d),
           words : SeqsOf(WordPool, 1, maxWords),
           solution : { << >> }, clues : {NoClues}] : d \in dims }

\* Format B with clue lists supplied
RecordsBSupplied(dims) ==
  UNION { [present : {TRUE}, dims : {d}, blocks : FewBlocks(d), words : { << >> },
           solution : { << >>, FullSolution(d) },
           clues : ClueLists(1, 2)] : d \in dims }

\* Format B without clue lists: the clues are derived
RecordsBDerived(dims) ==
  UNION { [present : {TRUE}, dims : {d}, blocks : AnyBlocks(d), words : { << >> },
           solution : SolutionLists(d), clues : {NoClues}] : d \in dims }

Records == RecordsA(LoadDims, MaxWords) \cup RecordsBSupplied(LoadDims) \cup RecordsBDerived(DerivedDims)

\* the configuration of the runs that load a record (generation is not run)
DefaultCFG ==
  [GEN_NX |-> 2, GEN_NY |-> 2, GEN_NZ |-> 1, targetBlockFrac |-> <<1, 4>>,
   minOpenPerSlice |-> 1, maxTries |-> MaxTries]

\* setup() with a usable record: loadPuzzleFromJSON(puzzleJSON), then the cursor
SetupLoad ==
  /\ pc = "setup"
  /\ puzzleJSON.present
  /\ \E r \in { loadPuzzleFromJSON(puzzleJSON) } :
       /\ DoLoad(r)
       /\ cur' = FirstOpenCell(r.g, cur)
       /\ depthX' = FirstOpenCell(r.g, cur)[1]
       /\ depthY' = FirstOpenCell(r.g, cur)[2]
       /\ first' = Snapshot(r.g)
  /\ last' = [op |-> "load", js |-> puzzleJSON]
  /\ pc' = "run"
  /\ UNCHANGED <<CFG, puzzleJSON, view, lastAxis, blocks, tries, made>>

\* downloadPuzzleJSON saves `puzzle`; a later run finds that file and its
\* setup() loads it
Reload ==
  /\ pc = "run"
  /\ puzzle.present
  /\ \E r \in { loadPuzzleFromJSON(puzzle) } :
       /\ DoLoad(r)
       /\ cur' = FirstOpenCell(r.g, <<0, 0, 0>>)
       /\ depthX' = FirstOpenCell(r.g, <<0, 0, 0>>)[1]
       /\ depthY' = FirstOpenCell(r.g, <<0, 0, 0>>)[2]
       /\ view' = "XY" /\ lastAxis' = "x"
  /\ last' = [op |-> "reload", js |-> puzzle]
  /\ UNCHANGED <<CFG, puzzleJSON, blocks, tries, made, first, pc>>

LoadInit ==
  /\ CFG = DefaultCFG
  /\ puzzleJSON \in Records
  /\ puzzle = NoRecord
  /\ NX = 0 /\ NY = 0 /\ NZ = 0
  /\ world = << >>
  /\ clues = NoClues
  /\ cur = <<0, 0, 0>>
  /\ view = "XY" /\ depthX = 0 /\ depthY = 0 /\ lastAxis = "x"
  /\ blocks = 0 /\ tries = 0
  /\ errors = << >>
  /\ made = [set |-> FALSE]
  /\ first = [set |-> FALSE]
  /\ last = [op |-> "init"]
  /\ pc = "setup"

Init == GenInit \/ LoadInit

Next ==
  \/ GenerateStart
  \/ \E x \in 0 .. NX - 1, y \in 0 .. NY - 1, z \in 0 .. NZ - 1 : Trial(x, y, z)
  \/ GenerateFinish
  \/ SetupGenerated
  \/ SetupLoad
  \/ Reload

Spec == Init /\ [][Next]_vars

----------------------------------------------------------------------------
(* Input events *)

constrain(v, lo, hi) == IF v < lo THEN lo ELSE IF v > hi THEN hi ELSE v

\* key names of more than one character, as p5 reports them in `key`
KeyNames == { "Shift", "Enter" }
\* the keys pressed in the model
Keys == { "a", "B", "1" } \cup KeyNames

\* normalizeChar(k): the letters A-Z of the accepted string (its six accented
\* letters are not typed here)
normalizeChar(k) ==
  IF k \in KeyNames THEN Null
  ELSE IF \E i \in 1 .. 26 : Alphabet[i] = UpperChar(k) THEN UpperChar(k) ELSE Null

\* the cursor is the coordinate of a cell; when it is not, cell(cur.x, cur.y,
\* cur.z) or the read of its fields throws a TypeError and the handler ends
\* there, no state changed
CursorInGrid == inBounds(Grid, cur[1], cur[2], cur[3])

\* keyPressed with a key that is none of TAB, arrows, BACKSPACE, DELETE
KeyLetter(k) ==
  /\ pc = "run"
  /\ LET ch == normalizeChar(k)
     IN IF ch # Null /\ CursorInGrid /\ ~world[cur].block
        THEN world' = [world EXCEPT ![cur].ch = ch]
        ELSE UNCHANGED world
  /\ last' = [op |-> "input"]
  /\ UNCHANGED <<CFG, puzzleJSON, puzzle, NX, NY, NZ, clues, cur, nav, blocks, tries,
                 errors, made, first, pc>>

\* keyPressed with BACKSPACE or DELETE
KeyDelete ==
  /\ pc = "run"
  /\ IF CursorInGrid /\ ~world[cur].block
     THEN world' = [world EXCEPT ![cur].ch = ""]
     ELSE UNCHANGED world
  /\ last' = [op |-> "input"]
  /\ UNCHANGED <<CFG, puzzleJSON, puzzle, NX, NY, NZ, clues, cur, nav, blocks, tries,
                 errors, made, first, pc>>

\* keyPressed with TAB
KeyTab ==
  /\ pc = "run"
  /\ IF view = "XY"
     THEN IF lastAxis = "x"
          THEN view' = "XZ" /\ depthY' = cur[2] /\ UNCHANGED depthX
          ELSE view' = "YZ" /\ depthX' = cur[1] /\ UNCHANGED depthY
     ELSE view' = "XY" /\ UNCHANGED <<depthX, depthY>>
  /\ last' = [op |-> "input"]
  /\ UNCHANGED <<CFG, puzzleJSON, puzzle, NX, NY, NZ, world, clues, cur, lastAxis, blocks,
                 tries, errors, made, first, pc>>

\* keyPressed with an arrow: moveInView(du, dv)
moveInView(du, dv) ==
  /\ pc = "run"
  /\ LET n == IF view = "XY" THEN <<cur[1] + du, cur[2] + dv, cur[3]>>
              ELSE IF view = "XZ" THEN <<cur[1] + du, depthY, cur[3] + dv>>
              ELSE <<depthX, cur[2] + du, cur[3] + dv>>
     IN /\ lastAxis' = IF view # "XY" THEN lastAxis
                       ELSE IF dv # 0 THEN "y" ELSE IF du # 0 THEN "x" ELSE lastAxis
        /\ IF ~inBounds(Grid, n[1], n[2], n[3]) THEN UNCHANGED <<cur, depthX, depthY>>
           ELSE IF world[n].block THEN UNCHANGED <<cur, depthX, depthY>>
           ELSE cur' = n /\ depthX' = n[1] /\ depthY' = n[2]
  /\ last' = [op |-> "input"]
  /\ UNCHANGED <<CFG, puzzleJSON, puzzle, NX, NY, NZ, world, clues, view, blocks, tries,
                 errors, made, first, pc>>

\* mouseWheel, step being +1 or -1
mouseWheel(step) ==
  /\ pc = "run"
  /\ IF view = "XY"
     THEN /\ cur' = [cur EXCEPT ![3] = constrain(cur[3] + step, 0, NZ - 1)]
          /\ UNCHANGED <<depthX, depthY>>
     ELSE IF view = "XZ"
     THEN /\ depthY' = constrain(depthY + step, 0, NY - 1)
          /\ cur' = [cur EXCEPT ![2] = constrain(depthY + step, 0, NY - 1)]
          /\ UNCHANGED depthX
     ELSE /\ depthX' = constrain(depthX + step, 0, NX - 1)
          /\ cur' = [cur EXCEPT ![1] = constrain(depthX + step, 0, NX - 1)]
          /\ UNCHANGED depthY
  /\ last' = [op |-> "input"]
  /\ UNCHANGED <<CFG, puzzleJSON, puzzle, NX, NY, NZ, world, clues, view, lastAxis, blocks,
                 tries, errors, made, first, pc>>

\* the viewport, in cells
VIEW_W == 10
VIEW_H == 10

\* the scroll offset of the viewport: ensureCursorVisible, run by every
\* draw(), constrains it to 0 .. max(0, Umax - VIEW_W) and 0 .. max(0, Vmax -
\* VIEW_H), which is 0 for a plane that fits the viewport, as every plane of
\* the grids here does; TAB and jumpToClue set it to 0 as well
cam == [u |-> 0, v |-> 0]

\* planeBounds: the extent of the plane shown
planeBounds ==
  IF view = "XY" THEN [Umax |-> NX, Vmax |-> NY]
  ELSE IF view = "XZ" THEN [Umax |-> NX, Vmax |-> NZ]
  ELSE [Umax |-> NY, Vmax |-> NZ]

\* viewToWorld(i, j): the cell shown at plane position <<i, j>>
viewToWorld(i, j) ==
  IF view = "XY" THEN <<cam.u + i, cam.v + j, cur[3]>>
  ELSE IF view = "XZ" THEN <<cam.u + i, depthY, cam.v + j>>
  ELSE <<depthX, cam.u + i, cam.v + j>>

\* getVisibleClues: clue c starts in the plane shown, inside the viewport
visible(c) ==
  LET s == c.start
      u1 == cam.u + VIEW_W - 1
      v1 == cam.v + VIEW_H - 1
  IN IF view = "XY"
     THEN s[3] = cur[3] /\ s[1] >= cam.u /\ s[1] <= u1 /\ s[2] >= cam.v /\ s[2] <= v1
     ELSE IF view = "XZ"
     THEN s[2] = depthY /\ s[1] >= cam.u /\ s[1] <= u1 /\ s[3] >= cam.v /\ s[3] <= v1
     ELSE s[1] = depthX /\ s[2] >= cam.u /\ s[2] <= u1 /\ s[3] >= cam.v /\ s[3] <= v1

\* mousePressed on the grid, at position <<ii, jj>> of the plane shown
mousePressed(ii, jj) ==
  /\ pc = "run"
  /\ ii >= 0 /\ jj >= 0 /\ ii < planeBounds.Umax /\ jj < planeBounds.Vmax
  /\ LET w == viewToWorld(ii, jj)
     IN IF inBounds(Grid, w[1], w[2], w[3]) /\ ~cell(Grid, w[1], w[2], w[3]).block
        THEN cur' = w /\ depthX' = w[1] /\ depthY' = w[2]
        ELSE UNCHANGED <<cur, depthX, depthY>>
  /\ last' = [op |-> "input"]
  /\ UNCHANGED <<CFG, puzzleJSON, puzzle, NX, NY, NZ, world, clues, view, lastAxis, blocks,
                 tries, errors, made, first, pc>>

\* mousePressed on line k of the clue column of direction kind: the clue is
\* among the visible clues, and jumpToClue(kind, c) runs
jumpToClue(kind, k) ==
  /\ pc = "run"
  /\ k \in DOMAIN clues[kind]
  /\ visible(clues[kind][k])
  /\ LET c == clues[kind][k]
     IN IF kind = "R" \/ kind = "D"
        THEN /\ view' = "XY"
             /\ cur' = c.start
             /\ depthX' = c.start[1] /\ depthY' = c.start[2]
             /\ lastAxis' = IF kind = "R" THEN "x" ELSE "y"
        ELSE IF lastAxis = "x"
        THEN /\ view' = "XZ"
             /\ depthY' = c.start[2]
             /\ cur' = c.start
             /\ UNCHANGED <<depthX, lastAxis>>
        ELSE /\ view' = "YZ"
             /\ depthX' = c.start[1]
             /\ cur' = c.start
             /\ UNCHANGED <<depthY, lastAxis>>
  /\ last' = [op |-> "input"]
  /\ UNCHANGED <<CFG, puzzleJSON, puzzle, NX, NY, NZ, world, clues, blocks, tries, errors,
                 made, first, pc>>

\* dimensions of the records of the runs with input events
UIDims == { <<2, 1, 2>> }

UIRecords == RecordsA(UIDims, 1) \cup RecordsBDerived(UIDims)

UIInit ==
  /\ CFG = DefaultCFG
  /\ puzzleJSON \in UIRecords
  /\ puzzle = NoRecord
  /\ NX = 0 /\ NY = 0 /\ NZ = 0
  /\ world = << >>
  /\ clues = NoClues
  /\ cur = <<0, 0, 0>>
  /\ view = "XY" /\ depthX = 0 /\ depthY = 0 /\ lastAxis = "x"
  /\ blocks = 0 /\ tries = 0
  /\ errors = << >>
  /\ made = [set |-> FALSE]
  /\ first = [set |-> FALSE]
  /\ last = [op |-> "init"]
  /\ pc = "setup"

UINext ==
  \/ SetupLoad
  \/ \E k \in Keys : KeyLetter(k)
  \/ KeyDelete
  \/ KeyTab
  \/ \E d \in { <<-1, 0>>, <<1, 0>>, <<0, -1>>, <<0, 1>> } : moveInView(d[1], d[2])
  \/ \E step \in { -1, 1 } : mouseWheel(step)
  \/ \E ii \in 0 .. planeBounds.Umax - 1, jj \in 0 .. planeBounds.Vmax - 1 : mousePressed(ii, jj)
  \/ \E kind \in Dirs : \E k \in DOMAIN clues[kind] : jumpToClue(kind, k)

\* a record is loaded, then keys and the wheel act on it
SpecUI == UIInit /\ [][UINext]_vars

----------------------------------------------------------------------------
(* Properties of the generator, stated on the grid itself                  *)

\* the open cells of the slice of g that fixes coordinate number axis at k
OpenInSlice(g, axis, k) == { c \in Cells(g) : c[axis] = k /\ ~g.world[c].block }

\* two cells one unit step apart
Adjacent(a, b) ==
  (IF a[1] > b[1] THEN a[1] - b[1] ELSE b[1] - a[1])
  + (IF a[2] > b[2] THEN a[2] - b[2] ELSE b[2] - a[2])
  + (IF a[3] > b[3] THEN a[3] - b[3] ELSE b[3] - a[3]) = 1

\* the cells of S reachable from the cells of T by unit steps inside S
RECURSIVE ReachIn(_, _)
ReachIn(S, T) ==
  LET T2 == T \cup { c \in S : \E t \in T : Adjacent(c, t) }
  IN IF T2 = T THEN T ELSE ReachIn(S, T2)

\* S is one non-empty 4-connected component
OneComponent(S) == S # {} /\ \A a \in S : ReachIn(S, {a}) = S

AxisLen(g, axis) == IF axis = 1 THEN g.NX ELSE IF axis = 2 THEN g.NY ELSE g.NZ

\* every slice of the three families has at least minOpen open cells, all connected
SlicesValid(g, minOpen) ==
  \A axis \in 1 .. 3 : \A k \in 0 .. AxisLen(g, axis) - 1 :
    /\ Cardinality(OpenInSlice(g, axis, k)) >= minOpen
    /\ OneComponent(OpenInSlice(g, axis, k))

\* the grid exists: generation has started
Generating == pc \in {"gen", "generated", "run"}

\* no slice of the volume has fewer cells than minOpenPerSlice
MinOpenFits ==
  /\ CFG.GEN_NX * CFG.GEN_NY >= CFG.minOpenPerSlice
  /\ CFG.GEN_NX * CFG.GEN_NZ >= CFG.minOpenPerSlice
  /\ CFG.GEN_NY * CFG.GEN_NZ >= CFG.minOpenPerSlice

\* C1 as stated: for every configuration, at every point of the placement loop
\* and after it, every slice of the three families has at least
\* minOpenPerSlice open cells and these form one 4-connected component.
C1_AllSlicesValid_Original == Generating => SlicesValid(Grid, CFG.minOpenPerSlice)

\* C1 amended: the same, for the configurations whose minOpenPerSlice does not
\* exceed the number of cells of any slice of the volume.
C1_AllSlicesValid == (Generating /\ MinOpenFits) => SlicesValid(Grid, CFG.minOpenPerSlice)

\* C1 witness: two placements were accepted under a positive slice minimum
C1_Witness ==
  /\ pc = "gen" /\ last.op = "accept" /\ blocks >= 2
  /\ MinOpenFits /\ CFG.minOpenPerSlice >= 1

\* floor(frac * total), as the largest t with t * den <= num * total
FloorOfFrac(frac, total) ==
  CHOOSE t \in 0 .. total : t * frac[2] <= frac[1] * total /\ (t + 1) * frac[2] > frac[1] * total

BlockedCells(g) == { c \in Cells(g) : g.world[c].block }

\* generateConnectedBlocks has returned
GeneratorReturned == (pc = "gen" /\ ~(blocks < targetBlocks /\ tries < CFG.maxTries))
                     \/ pc \in {"generated", "run"}

\* C2: when generateConnectedBlocks returns, the number of blocked cells is at
\* most floor(targetBlockFrac * NX*NY*NZ) and equals it when tries < maxTries;
\* the counter of accepted placements always equals the number of blocked cells.
C2_BlockCount ==
  Generating =>
    /\ blocks = Cardinality(BlockedCells(Grid))
    /\ GeneratorReturned =>
         /\ Cardinality(BlockedCells(Grid)) <= FloorOfFrac(CFG.targetBlockFrac, NX * NY * NZ)
         /\ tries < CFG.maxTries =>
              Cardinality(BlockedCells(Grid)) = FloorOfFrac(CFG.targetBlockFrac, NX * NY * NZ)

\* C2 witness: the loop ended below the cap with a positive target reached
C2_Witness ==
  /\ pc = "gen" /\ ~LoopRuns /\ tries < CFG.maxTries
  /\ blocks >= 1 /\ blocks = Cardinality(BlockedCells(Grid))

\* the loop ended on its attempt cap with fewer blocks than the target
CapExhausted == GeneratorReturned /\ blocks < targetBlocks

\* C13 as stated, its final result: for every configuration the attempt
\* counter stays within maxTries, and a loop that ends on the cap below the
\* target leaves a grid whose every slice is connected and has at least
\* minOpenPerSlice open cells.
C13_CapExhausted_Original ==
  /\ pc = "gen" => tries <= CFG.maxTries
  /\ CapExhausted => SlicesValid(Grid, CFG.minOpenPerSlice)

\* C13 amended: every iteration of the placement loop, a pick of a blocked
\* cell included, raises the attempt counter by one and the counter never
\* passes maxTries, so the loop ends after at most maxTries iterations; when the cap is exhausted below
\* the target and minOpenPerSlice does not exceed the number of cells of any
\* slice of the volume, every slice of the returned grid is connected and has
\* at least minOpenPerSlice open cells.
C13_Terminates ==
  /\ [][(pc = "gen" /\ pc' = "gen") => tries' = tries + 1]_vars
  /\ [](pc = "gen" => tries <= CFG.maxTries)
  /\ (pc = "gen") ~> (pc = "gen" /\ ~LoopRuns)
  /\ []((CapExhausted /\ MinOpenFits) => SlicesValid(Grid, CFG.minOpenPerSlice))

\* C13 witness: the cap was exhausted below the target, the last pick having
\* landed on a cell blocked by an earlier one
C13_Witness ==
  /\ pc = "gen" /\ CapExhausted /\ tries = CFG.maxTries /\ tries >= 2
  /\ last.op = "skip" /\ blocks >= 1
  /\ MinOpenFits /\ CFG.minOpenPerSlice >= 1

\* the grid g with cell c blocked
WithBlock(g, c) == [g EXCEPT !.world[c].block = TRUE]

\* C15: every iteration of the placement loop raises the attempt counter by
\* one and leaves the dimensions alone; a pick of a blocked cell changes
\* neither grid nor block counter; a pick of an open cell whose blocking keeps
\* every slice connected and at minOpenPerSlice open cells blocks exactly
\* that cell and raises the block counter by one; any other pick of an open
\* cell leaves the whole grid and the block counter as they were.
C15_TrialFrame ==
  [][(pc = "gen" /\ pc' = "gen") =>
       LET at == last'.at
       IN /\ tries' = tries + 1
          /\ NX' = NX /\ NY' = NY /\ NZ' = NZ
          /\ world[at].block => (world' = world /\ blocks' = blocks)
          /\ (~world[at].block /\ SlicesValid(WithBlock(Grid, at), CFG.minOpenPerSlice)) =>
               /\ world' = [world EXCEPT ![at] = [world[at] EXCEPT !.block = TRUE]]
               /\ blocks' = blocks + 1
          /\ (~world[at].block /\ ~SlicesValid(WithBlock(Grid, at), CFG.minOpenPerSlice)) =>
               (world' = world /\ blocks' = blocks)]_vars

\* C15 witness: a tentative block has just been reverted on a grid that holds
\* an accepted block
C15_Witness ==
  /\ pc = "gen" /\ last.op = "revert" /\ blocks >= 1
  /\ world = last.world /\ blocks = last.blocks
  /\ ~world[last.at].block

----------------------------------------------------------------------------
(* Properties of loaded puzzles                                            *)

\* the record the latest loadPuzzleFromJSON call was given
LoadedJs == last.js

\* a puzzle is loaded and no input event has followed
Loaded == pc = "run" /\ last.op \in {"load", "reload"}

IsFormatA(js) == Len(js.words) > 0

\* a Format B record that brings its own clue lists
IsSupplied(js) == ~IsFormatA(js) /\ (js.clues.R # << >> \/ js.clues.D # << >> \/ js.clues.I # << >>)

\* a Format B record whose clues the loader derives
IsDerived(js) == ~IsFormatA(js) /\ ~IsSupplied(js)

\* the puzzle was generated, not read from a record
Generated == ~puzzleJSON.present

\* the clue objects of all three lists
AllClues(cl) ==
  { cl.R[i] : i \in DOMAIN cl.R } \cup { cl.D[i] : i \in DOMAIN cl.D }
  \cup { cl.I[i] : i \in DOMAIN cl.I }

\* c is a cell of g and is not blocked
Open(g, c) == c \in Cells(g) /\ ~g.world[c].block

\* the coordinate i steps from c in direction dir
Plus(c, dir, i) == <<c[1] + i * Step(dir)[1], c[2] + i * Step(dir)[2], c[3] + i * Step(dir)[3]>>

\* the number of contiguous open cells from s along dir
RunLength(g, s, dir) ==
  Cardinality({ k \in 1 .. g.NX + g.NY + g.NZ : \A i \in 0 .. k - 1 : Open(g, Plus(s, dir, i)) })

\* C3: in every state reached by loading a record and then pressing keys and
\* turning the wheel, every blocked cell has empty sol, empty ch and
\* numR = numD = numI = 0.
C3_BlockedCellsEmpty ==
  pc = "run" =>
    \A c \in Cells(Grid) :
      world[c].block =>
        /\ world[c].sol = "" /\ world[c].ch = ""
        /\ world[c].numR = 0 /\ world[c].numD = 0 /\ world[c].numI = 0

\* same start <=> same number, over the clues of all directions
NumberingConsistent(cl) ==
  \A a \in AllClues(cl), b \in AllClues(cl) : (a.start = b.start) <=> (a.n = b.n)

\* C4 as stated: after any load (Format A, Format B with supplied or derived
\* clues) and after generation, two clues have the same n exactly when they
\* have the same start.
C4_Numbering_Original == Loaded => NumberingConsistent(clues)

\* C4 amended: the same for the clues the program numbers itself: Format A,
\* Format B with derived clues, and generation.
C4_Numbering ==
  (Loaded /\ (Generated \/ IsFormatA(LoadedJs) \/ IsDerived(LoadedJs)))
    => NumberingConsistent(clues)

\* C4 witness: a word list with an R and a D word at one start
C4_Witness ==
  /\ Loaded /\ IsFormatA(LoadedJs)
  /\ \E i \in DOMAIN clues.R, j \in DOMAIN clues.D :
       clues.R[i].start = clues.D[j].start /\ clues.R[i].n = clues.D[j].n

\* clue c of direction dir has the length of its run and starts the run
ClueFits(g, dir, c) ==
  /\ c.len = RunLength(g, c.start, dir)
  /\ ~Open(g, Plus(c.start, dir, -1))
  /\ c.len # 0

AllCluesFit(g, cl) == \A dir \in Dirs : \A i \in DOMAIN cl[dir] : ClueFits(g, dir, cl[dir][i])

\* C5 as stated: after any load or generation every clue's len is the count of
\* contiguous open cells from its start, the cell before its start is off-grid
\* or blocked, and len is not 0.
C5_ClueShape_Original == Loaded => AllCluesFit(Grid, clues)

\* C5 amended: the same for the clues the program derives from the grid:
\* Format B without supplied clue lists, and generation.
C5_ClueShape ==
  /\ (Loaded /\ (Generated \/ IsDerived(LoadedJs))) => AllCluesFit(Grid, clues)
  /\ pc = "generated" => AllCluesFit(made, puzzle.clues)

\* C5 witness: derived clues on a grid with a block
C5_Witness ==
  /\ Loaded /\ ~Generated /\ IsDerived(LoadedJs)
  /\ \E c \in Cells(Grid) : world[c].block
  /\ clues.R # << >> /\ clues.D # << >>

\* the open cells s, s + dir, .. (k cells) are a maximal run
IsRun(g, s, dir, k) ==
  /\ \A i \in 0 .. k - 1 : Open(g, Plus(s, dir, i))
  /\ ~Open(g, Plus(s, dir, -1))
  /\ ~Open(g, Plus(s, dir, k))

\* the clue lists cl are exactly the word starts of grid g
DerivedExact(g, cl) ==
  \A dir \in Dirs :
    /\ \A c \in Cells(g) :
         (\E i \in DOMAIN cl[dir] : cl[dir][i].start = c)
           <=> (Open(g, c) /\ ~Open(g, Plus(c, dir, -1)) /\ Open(g, Plus(c, dir, 1)))
    /\ \A i \in DOMAIN cl[dir] : cl[dir][i].start \in Cells(g)
    /\ \A s \in Cells(g), k \in 1 .. g.NX + g.NY + g.NZ :
         IsRun(g, s, dir, k) =>
           Cardinality({ i \in DOMAIN cl[dir] :
                           \E j \in 0 .. k - 1 : cl[dir][i].start = Plus(s, dir, j) })
             = IF k >= 2 THEN 1 ELSE 0

\* C6: clue derivation registers a clue at open cell c in direction d iff the
\* cell before c is off-grid or blocked and the cell after c is on-grid and
\* open; a run of one open cell gets no clue and every maximal run of two or
\* more open cells gets exactly one.
C6_Derivation ==
  /\ (Loaded /\ (Generated \/ IsDerived(LoadedJs))) => DerivedExact(Grid, clues)
  /\ pc = "generated" => DerivedExact(made, puzzle.clues)

\* C6 witness: derived clues on a grid with a one-cell run and a longer run
C6_Witness ==
  /\ Loaded /\ ~Generated /\ IsDerived(LoadedJs)
  /\ \E s \in Cells(Grid) : IsRun(Grid, s, "R", 1)
  /\ \E s \in Cells(Grid) : IsRun(Grid, s, "R", 2)
  /\ clues.R # << >>

\* the cell of a record: on its grid and not in its block list
RecOpen(js, c) ==
  /\ c \in CellsOf(js.dims[1], js.dims[2], js.dims[3])
  /\ \A i \in DOMAIN js.blocks : js.blocks[i] # c

\* letter number t (from 0) of word w lands on cell c: the word's run gets
\* there without leaving the grid or meeting a block
Writes(js, w, t, c) ==
  /\ t < Len(w.answer)
  /\ Plus(w.start, w.dir, t) = c
  /\ \A u \in 0 .. t : RecOpen(js, Plus(w.start, w.dir, u))

\* the words of the record that write cell c
WritersOf(js, c) ==
  { k \in DOMAIN js.words : \E t \in 0 .. Len(js.words[k].answer) - 1 : Writes(js, js.words[k], t, c) }

UpperLetter(ch) == IF ch = "a" THEN "A" ELSE IF ch = "b" THEN "B" ELSE ch

\* the letter word k of the record has for cell c
LetterAt(js, k, c) ==
  LET w == js.words[k]
      t == CHOOSE t \in 0 .. Len(w.answer) - 1 : Plus(w.start, w.dir, t) = c
  IN UpperLetter(w.answer[t + 1])

\* the CROSSING CONFLICT lines about cell c
ConflictsAt(c) == { n \in DOMAIN errors : errors[n].kind = "CROSSING CONFLICT" /\ errors[n].at = c }

\* words i < j are the two words that write cell c, with different letters
Crossing(js, i, j, c) ==
  /\ i < j
  /\ WritersOf(js, c) = {i, j}
  /\ LetterAt(js, i, c) # LetterAt(js, j, c)

\* C7: when two words of a Format A record cross at a cell with different
\* letters there, the load logs exactly one CROSSING CONFLICT for that cell,
\* naming the later word, the prior letter and the wanted letter, and the cell
\* ends with the later word's letter.
C7_CrossingConflict ==
  (Loaded /\ IsFormatA(LoadedJs)) =>
    \A c \in Cells(Grid), i \in DOMAIN LoadedJs.words, j \in DOMAIN LoadedJs.words :
      Crossing(LoadedJs, i, j, c) =>
        /\ Cardinality(ConflictsAt(c)) = 1
        /\ \A n \in ConflictsAt(c) :
             /\ errors[n].word = j
             /\ errors[n].had = LetterAt(LoadedJs, i, c)
             /\ errors[n].wants = LetterAt(LoadedJs, j, c)
        /\ world[c].sol = LetterAt(LoadedJs, j, c)

\* C7 witness: a loaded word list with two words of different directions
\* crossing with different letters
C7_Witness ==
  /\ Loaded /\ IsFormatA(LoadedJs)
  /\ \E c \in Cells(Grid), i \in DOMAIN LoadedJs.words, j \in DOMAIN LoadedJs.words :
       /\ Crossing(LoadedJs, i, j, c)
       /\ LoadedJs.words[i].dir # LoadedJs.words[j].dir

\* the run of word w leaves the grid or lands on a block
Offending(js, w) == \E t \in 0 .. Len(w.answer) - 1 : ~RecOpen(js, Plus(w.start, w.dir, t))

\* C8: a Format A word whose run leaves the grid or lands on a blocked cell is
\* reported and skipped: the loaded grid and clues are those the word list
\* without the offending words gives.
C8_OffendingWordSkipped ==
  (Loaded /\ IsFormatA(LoadedJs)) =>
    LET js == LoadedJs
        Fine(w) == ~Offending(js, w)
        r == loadWords(blockedGrid(js), SelectSeq(js.words, Fine))
    IN /\ \A k \in DOMAIN js.words :
            Offending(js, js.words[k]) =>
              \E n \in DOMAIN errors :
                errors[n].word = k /\ errors[n].kind \in {"WORD OUT OF BOUNDS", "WORD HITS BLOCK"}
       /\ world = r.g.world
       /\ clues = r.clues

\* the block flag, solution letter and numbers of every cell agree
SamePuzzle(g, snap) ==
  /\ snap.set
  /\ g.NX = snap.NX /\ g.NY = snap.NY /\ g.NZ = snap.NZ
  /\ \A c \in Cells(g) :
       /\ g.world[c].block = snap.world[c].block
       /\ g.world[c].sol = snap.world[c].sol
       /\ g.world[c].numR = snap.world[c].numR
       /\ g.world[c].numD = snap.world[c].numD
       /\ g.world[c].numI = snap.world[c].numI

\* the block flag and solution letter of every cell agree
SameLetters(g, snap) ==
  /\ snap.set
  /\ g.NX = snap.NX /\ g.NY = snap.NY /\ g.NZ = snap.NZ
  /\ \A c \in Cells(g) :
       /\ g.world[c].block = snap.world[c].block
       /\ g.world[c].sol = snap.world[c].sol

\* C9: loading the saved puzzle object again gives the dimensions, block
\* flags, solution letters and numbers of the first load; the load of a
\* generated puzzle gives the blocks and letters the generator left.
C9_RoundTrip ==
  /\ (pc = "run" /\ last.op = "reload") => SamePuzzle(Grid, first)
  /\ (Loaded /\ Generated) => SameLetters(Grid, made)

\* C9 witness: a record with supplied clues and a block was loaded again
C9_Witness ==
  /\ pc = "run" /\ last.op = "reload" /\ ~Generated /\ IsSupplied(LoadedJs)
  /\ \E c \in Cells(Grid) : world[c].block
  /\ \E c \in Cells(Grid) : world[c].sol # "" /\ world[c].numD # 0

\* the record has neither a non-empty word list nor a solution list
LacksBoth(js) == js.words = << >> /\ js.solution = << >>

\* C10 as stated: a record with neither word list nor solution list loads
\* into a puzzle with every cell open and no clues.
C10_EmptyPuzzle_Original ==
  (Loaded /\ LacksBoth(LoadedJs)) =>
    /\ \A c \in Cells(Grid) : ~world[c].block
    /\ clues = NoClues

\* two open cells of g lie next to each other along some direction
HasWordRun(g) == \E c \in Cells(g), dir \in Dirs : Open(g, c) /\ Open(g, Plus(c, dir, 1))

\* C10 amended: such a record loads without a diagnostic into a puzzle without
\* solution letters: a cell is blocked exactly when the block list names it,
\* and unless clue lists are supplied the clues are those derived from the
\* grid, none only when no two open cells are adjacent along a direction.
C10_EmptyPuzzle ==
  (Loaded /\ LacksBoth(LoadedJs)) =>
    /\ errors = << >>
    /\ NX = LoadedJs.dims[1] /\ NY = LoadedJs.dims[2] /\ NZ = LoadedJs.dims[3]
    /\ \A c \in Cells(Grid) :
         /\ world[c].sol = ""
         /\ world[c].block <=> ~RecOpen(LoadedJs, c)
    /\ IsDerived(LoadedJs) =>
         /\ DerivedExact(Grid, clues)
         /\ (clues = NoClues) <=> ~HasWordRun(Grid)

\* C10 witness: such a record with a block, and a clue derived for it
C10_Witness ==
  /\ Loaded /\ LacksBoth(LoadedJs) /\ IsDerived(LoadedJs)
  /\ \E c \in Cells(Grid) : world[c].block
  /\ clues.R # << >>

\* C11: after the load of a Format B record that supplies a clue list, the
\* clue lists are the supplied ones, clue for clue (number, start, len), and
\* every clue of R, D and I that came without hint text carries the default
\* hint of its direction.
C11_SuppliedHints ==
  (Loaded /\ IsSupplied(LoadedJs)) =>
    \A dir \in Dirs :
      /\ Len(clues[dir]) = Len(LoadedJs.clues[dir])
      /\ \A i \in DOMAIN clues[dir] :
           LET c == clues[dir][i]
               s == LoadedJs.clues[dir][i]
           IN /\ c.n = s.n /\ c.start = s.start /\ c.len = s.len
              /\ c.hint = IF s.hint = Null THEN DefaultHint(dir) ELSE s.hint

\* the character answer binding gives for cell c: its solution letter, or the
\* placeholder when the cell has none
BoundChar(g, c) == IF g.world[c].sol # "" THEN g.world[c].sol ELSE "?"

\* C12: after a load every clue's answer has exactly len characters, the i-th
\* being the solution letter of the cell i steps from the clue's start along
\* its direction, or "?" when that cell has no solution letter.
C12_AnswerBinding ==
  Loaded =>
    \A dir \in Dirs : \A k \in DOMAIN clues[dir] :
      LET c == clues[dir][k]
      IN /\ Len(c.answer) = c.len
         /\ \A i \in 0 .. c.len - 1 :
              /\ Plus(c.start, dir, i) \in Cells(Grid)
              /\ c.answer[i + 1] = BoundChar(Grid, Plus(c.start, dir, i))

\* what the code answers for the slice of g that fixes coordinate number axis
\* at k: isConnectedYZ for axis 1, isConnectedXZ for axis 2, isConnectedXY for 3
SliceAnswer(g, axis, k) ==
  IF axis = 1 THEN isConnectedYZ(g, k)
  ELSE IF axis = 2 THEN isConnectedXZ(g, k) ELSE isConnectedXY(g, k)

\* C14: for every grid setup() loads and every slice of the three families, the
\* isConnected function of the family returns true exactly when the slice has
\* an open cell and each of its open cells reaches every other by unit steps
\* through open cells of the slice; a slice without open cells gives false.
C14_SliceConnectivity ==
  (pc = "run" /\ last.op = "load") =>
    \A axis \in 1 .. 3 : \A k \in 0 .. AxisLen(Grid, axis) - 1 :
      LET answer == SliceAnswer(Grid, axis, k)
      IN /\ answer <=> OneComponent(OpenInSlice(Grid, axis, k))
         /\ OpenInSlice(Grid, axis, k) = {} => ~answer

\* C14 witness: a grid with a slice whose open cells fall into two parts,
\* answered false, a slice without open cells, and a slice answered true
C14_Witness ==
  /\ pc = "run" /\ last.op = "load"
  /\ \E axis \in 1 .. 3 : \E k \in 0 .. AxisLen(Grid, axis) - 1 :
       /\ Cardinality(OpenInSlice(Grid, axis, k)) >= 2
       /\ ~SliceAnswer(Grid, axis, k)
  /\ \E axis \in 1 .. 3 : \E k \in 0 .. AxisLen(Grid, axis) - 1 :
       OpenInSlice(Grid, axis, k) = {}
  /\ \E axis \in 1 .. 3 : \E k \in 0 .. AxisLen(Grid, axis) - 1 :
       SliceAnswer(Grid, axis, k)

\* C16: after setup on a record whose clues the loader derives and whose grid
\* has an open cell, and after any sequence of arrow keys, wheel turns, TAB,
\* grid clicks and clue clicks, the cursor is the coordinate of a cell of the
\* grid that is not blocked.
C16_CursorOnOpenCell ==
  (pc = "run" /\ IsDerived(puzzleJSON) /\ \E c \in Cells(Grid) : ~world[c].block) =>
    /\ cur \in Cells(Grid)
    /\ ~world[cur].block

====
